---- MODULE Spec2Model ----
(***************************************************************************)
(* Credential validation (framework/credentials/validation.py) and the     *)
(* credential setup modal screen (framework/tui/screens/                   *)
(* credential_setup.py).                                                   *)
(*                                                                         *)
(* Strings typed into the Input widgets are sequences of characters, so    *)
(* that str.strip() is computed rather than assumed.  Tool names and node  *)
(* type names are represented by their rank in Python's string order, so   *)
(* that sorted() is computed as an ascending enumeration.                  *)
(***************************************************************************)
EXTENDS Integers, Sequences, FiniteSets, TLC

\* ------------------------------------------------------------------ bounds
MaxMissing == 2      \* longest session.missing list explored
MaxLen == 2          \* longest text typed into one Input
MaxNodes == 2        \* longest node list passed to validate_agent_credentials

VARIABLES
    \* ---- CredentialSetupScreen
    missing,        \* self._missing: sequence of env_var names
    inputs,         \* value of Input #key-i, i = 1..Len(missing)
    dismissed,      \* the screen has been dismissed
    result,         \* the value passed to dismiss: "None" | "True" | "pending"
    crashed,        \* an exception escaped a message handler
    store,          \* credential store: env_var -> stored value or Absent
    lastOp,         \* the handler that ran last
    lastLog,        \* the events emitted by the handler that ran last
    configured,     \* local `configured` at the end of the last save
    \* ---- validation.py
    nodes,          \* argument of the last validate_agent_credentials call
    adapterInstalled,   \* aden_tools...store_adapter is importable
    shellInstalled,     \* aden_tools...shell_config is importable
    shellConfig,    \* what check_env_var_in_shell_config returns per variable
    environ,        \* os.environ restricted to the two key variables
    present,        \* credential names the adapter reports as available
    lookups,        \* variables the last call looked up in the shell config
    adapterCalls,   \* calls the last call made on CredentialStoreAdapter
    outcome,        \* "idle" | "returned" | "raised" of the last call
    message,        \* `missing` list of entries carried by the raised error
    lastCall,       \* "none" | "ensure" | "validate"
    environBefore   \* os.environ when the last call started

setupVars == <<missing, inputs, dismissed, result, crashed, store,
               lastOp, lastLog, configured>>
validationVars == <<nodes, adapterInstalled, shellInstalled, shellConfig,
                    environ, present, lookups, adapterCalls, outcome,
                    message, lastCall, environBefore>>
vars == <<setupVars, validationVars>>

\* ------------------------------------------------------------ strings
Whitespace == {" "}
Chars == {" ", "a"}
Absent == "<absent>"

RECURSIVE SeqsUpTo(_, _)
SeqsUpTo(S, n) ==
    IF n = 0 THEN {<<>>}
    ELSE LET shorter == SeqsUpTo(S, n - 1)
         IN  shorter \cup {Append(s, c) : s \in shorter, c \in S}

Texts == SeqsUpTo(Chars, MaxLen)

RECURSIVE lstrip(_)
lstrip(s) ==
    IF s # <<>> /\ Head(s) \in Whitespace THEN lstrip(Tail(s)) ELSE s

RECURSIVE rstrip(_)
rstrip(s) ==
    IF s # <<>> /\ s[Len(s)] \in Whitespace
    THEN rstrip(SubSeq(s, 1, Len(s) - 1))
    ELSE s

stripNothing(s) == s

stripLeftOnly(s) == lstrip(s)

\* str.strip(): leading and trailing whitespace removed
strip(s) == rstrip(lstrip(s))

\* ------------------------------------------------------------ the session
EnvVars == {"FOO_KEY", "BAR_KEY"}

MissingLists == SeqsUpTo(EnvVars, MaxMissing)

Event(type, idx, env_var, value) ==
    [type |-> type, idx |-> idx, env_var |-> env_var, value |-> value]

\* CredentialSetupSession._store_credential(cred, value): Store.put keyed by
\* the spec's env_var; a failed put leaves the store as it was.
StoreCredential(st, env_var, value) == [st EXCEPT ![env_var] = value]

\* The loop of _save_credentials from entry i on.  fails[i] says whether
\* _store_credential raises for entry i.  acc = [configured, store, log].
RECURSIVE SaveLoopStopAtError(_, _, _, _, _)
SaveLoopStopAtError(i, miss, inp, fails, acc) ==
    IF i > Len(miss) THEN acc
    ELSE LET value == strip(inp[i]) IN
         IF value = <<>>
         THEN SaveLoopStopAtError(i + 1, miss, inp, fails, acc)
         ELSE IF fails[i]
         THEN [acc EXCEPT
                  !.log = @ \o <<Event("store_failed", i, miss[i], value),
                                 Event("notify_error", i, miss[i], <<>>)>>]
         ELSE SaveLoopStopAtError(i + 1, miss, inp, fails,
                  [configured |-> acc.configured + 1,
                   store |-> StoreCredential(acc.store, miss[i], value),
                   log |-> Append(acc.log,
                                  Event("stored", i, miss[i], value))])

RECURSIVE SaveLoopCountAttempts(_, _, _, _, _)
SaveLoopCountAttempts(i, miss, inp, fails, acc) ==
    IF i > Len(miss) THEN acc
    ELSE LET value == strip(inp[i]) IN
         IF value = <<>>
         THEN SaveLoopCountAttempts(i + 1, miss, inp, fails, acc)
         ELSE IF fails[i]
         THEN SaveLoopCountAttempts(i + 1, miss, inp, fails,
                  [acc EXCEPT
                      !.configured = @ + 1,
                      !.log = @ \o <<Event("store_failed", i, miss[i], value),
                                     Event("notify_error", i, miss[i], <<>>)>>])
         ELSE SaveLoopCountAttempts(i + 1, miss, inp, fails,
                  [configured |-> acc.configured + 1,
                   store |-> StoreCredential(acc.store, miss[i], value),
                   log |-> Append(acc.log,
                                  Event("stored", i, miss[i], value))])

RECURSIVE SaveLoop(_, _, _, _, _)
SaveLoop(i, miss, inp, fails, acc) ==
    IF i > Len(miss) THEN acc
    ELSE LET value == strip(inp[i]) IN
         IF value = <<>>
         THEN SaveLoop(i + 1, miss, inp, fails, acc)
         ELSE IF fails[i]
         THEN SaveLoop(i + 1, miss, inp, fails,
                  [acc EXCEPT
                      !.log = @ \o <<Event("store_failed", i, miss[i], value),
                                     Event("notify_error", i, miss[i], <<>>)>>])
         ELSE SaveLoop(i + 1, miss, inp, fails,
                  [configured |-> acc.configured + 1,
                   store |-> StoreCredential(acc.store, miss[i], value),
                   log |-> Append(acc.log,
                                  Event("stored", i, miss[i], value))])

Mounted == ~dismissed /\ ~crashed

\* What _save_credentials does once _ensure_credential_key has returned.
SaveAfterKey(fails) ==
    LET done == SaveLoop(1, missing, inputs, fails,
                    [configured |-> 0, store |-> store,
                     log |-> <<Event("key_ok", 0, "", <<>>)>>])
    IN  /\ store' = done.store
        /\ configured' = done.configured
        /\ crashed' = crashed
        /\ IF done.configured > 0
           THEN /\ lastLog' = done.log
                /\ dismissed' = TRUE
                /\ result' = "True"
           ELSE /\ lastLog' = Append(done.log,
                                     Event("notify_warning", 0, "", <<>>))
                /\ dismissed' = dismissed
                /\ result' = result

\* _ensure_credential_key raised: the exception leaves _save_credentials
\* and on_button_pressed before anything else has run.
SaveKeyFailed ==
    /\ lastLog' = <<Event("key_failed", 0, "", <<>>)>>
    /\ crashed' = TRUE
    /\ UNCHANGED <<store, configured, dismissed, result>>

SaveIgnoringKeyFailure(keyOk, fails) ==
    IF keyOk THEN SaveAfterKey(fails)
    ELSE LET done == SaveLoop(1, missing, inputs, fails,
                         [configured |-> 0, store |-> store,
                          log |-> <<Event("key_failed", 0, "", <<>>)>>])
         IN  /\ store' = done.store
             /\ configured' = done.configured
             /\ crashed' = crashed
             /\ lastLog' = done.log
             /\ dismissed' = (done.configured > 0)
             /\ result' = IF done.configured > 0 THEN "True" ELSE result

\* CredentialSetupScreen._save_credentials
SaveCredentials(keyOk, fails) ==
    IF keyOk THEN SaveAfterKey(fails) ELSE SaveKeyFailed

DismissWithTrue ==
    /\ dismissed' = TRUE
    /\ result' = "True"
    /\ lastLog' = <<>>
    /\ UNCHANGED <<store, configured, crashed>>

\* self.dismiss(None)
DismissNone ==
    /\ dismissed' = TRUE
    /\ result' = "None"
    /\ lastLog' = <<>>
    /\ UNCHANGED <<store, configured, crashed>>

ButtonIds == {"btn-save", "btn-skip"}

\* CredentialSetupScreen.on_button_pressed
OnButtonPressed(id) ==
    /\ Mounted
    /\ \/ /\ id = "btn-save"
          /\ \E keyOk \in BOOLEAN, fails \in [1..Len(missing) -> BOOLEAN] :
                SaveCredentials(keyOk, fails)
          /\ lastOp' = "save"
       \/ /\ id = "btn-skip"
          /\ DismissNone
          /\ lastOp' = "skip"
    /\ UNCHANGED <<missing, inputs>>
    /\ UNCHANGED validationVars

\* CredentialSetupScreen.action_dismiss_setup (the Escape binding)
ActionDismissSetup ==
    /\ Mounted
    /\ DismissNone
    /\ lastOp' = "escape"
    /\ UNCHANGED <<missing, inputs>>
    /\ UNCHANGED validationVars

\* The operator edits Input #key-i.
TypeInput(i, text) ==
    /\ Mounted
    /\ i \in 1..Len(missing)
    /\ inputs[i] # text
    /\ inputs' = [inputs EXCEPT ![i] = text]
    /\ lastOp' = "type"
    /\ lastLog' = <<>>
    /\ UNCHANGED <<missing, dismissed, result, crashed, store, configured>>
    /\ UNCHANGED validationVars

ValidationIdle ==
    /\ nodes = <<>>
    /\ adapterInstalled = FALSE
    /\ shellInstalled = FALSE
    /\ shellConfig = <<>>
    /\ environ = <<>>
    /\ present = {}
    /\ lookups = <<>>
    /\ adapterCalls = <<>>
    /\ outcome = "idle"
    /\ message = <<>>
    /\ lastCall = "none"
    /\ environBefore = <<>>

SetupInit ==
    /\ missing \in MissingLists
    /\ inputs = [i \in 1..Len(missing) |-> <<>>]
    /\ dismissed = FALSE
    /\ result = "pending"
    /\ crashed = FALSE
    /\ store = [v \in EnvVars |-> Absent]
    /\ lastOp = "none"
    /\ lastLog = <<>>
    /\ configured = 0
    /\ ValidationIdle

SetupNext ==
    \/ \E id \in ButtonIds : OnButtonPressed(id)
    \/ ActionDismissSetup
    \/ \E i \in 1..MaxMissing, text \in Texts : TypeInput(i, text)

SetupSpec == SetupInit /\ [][SetupNext]_vars

Status ==
    IF crashed THEN "Failed"
    ELSE IF ~dismissed THEN "Collecting"
    ELSE IF result = "True" THEN "Saved" ELSE "Cancelled"

\* ------------------------------------------------------- validation.py
ToolNames == {1, 2}
TypeNames == {1, 2}
None == "<None>"
Unset == "<unset>"

\* The Credential Spec Registry behind CredentialStoreAdapter, in the order
\* the adapter reports specs (by spec identity).
Registry ==
    << [name |-> "search", env_var |-> "SEARCH_API_KEY",
        tools |-> {1, 2}, node_types |-> {}, help_url |-> "https://search"],
       [name |-> "llm", env_var |-> "LLM_API_KEY",
        tools |-> {}, node_types |-> {1, 2}, help_url |-> None],
       [name |-> "mail", env_var |-> "MAIL_API_KEY",
        tools |-> {2}, node_types |-> {1}, help_url |-> "https://mail"] >>

SpecNames == {Registry[k].name : k \in 1..Len(Registry)}

\* NodeSpec objects.  tools = {} stands for every falsy node.tools (None or
\* an empty list), which `if node.tools` treats alike.
NodeValues == [tools : SUBSET ToolNames, node_type : TypeNames]

NodeLists == SeqsUpTo(NodeValues, MaxNodes)

\* sorted(S) for a set of names
RECURSIVE Sorted(_)
Sorted(S) ==
    IF S = {} THEN <<>>
    ELSE LET least == CHOOSE x \in S : \A y \in S : x <= y
         IN  <<least>> \o Sorted(S \ {least})

ToSet(seq) == {seq[k] : k \in 1..Len(seq)}

\* bool(value) of an environment value or a shell-config answer
Truthy(v) == v \notin {Unset, None, ""}

KeyVars == <<"HIVE_CREDENTIAL_KEY", "ADEN_API_KEY">>

KeyVarSet == ToSet(KeyVars)

\* check_env_var_in_shell_config(var_name) -> (found, value)
CheckEnvVarInShellConfig(var_name) == shellConfig[var_name]

\* The for loop of ensure_credential_key_env from KeyVars[k] on.
\* acc = [environ, lookups].
RECURSIVE EnsureLoopOverwrite(_, _)
EnsureLoopOverwrite(k, acc) ==
    IF k > Len(KeyVars) THEN acc
    ELSE LET var_name == KeyVars[k]
             answer == CheckEnvVarInShellConfig(var_name)
             looked == Append(acc.lookups, var_name)
         IN  IF answer.found /\ Truthy(answer.value)
             THEN EnsureLoopOverwrite(k + 1,
                      [environ |-> [acc.environ EXCEPT ![var_name] = answer.value],
                       lookups |-> looked])
             ELSE EnsureLoopOverwrite(k + 1,
                      [environ |-> acc.environ, lookups |-> looked])

RECURSIVE EnsureLoop(_, _)
EnsureLoop(k, acc) ==
    IF k > Len(KeyVars) THEN acc
    ELSE LET var_name == KeyVars[k]
             answer == CheckEnvVarInShellConfig(var_name)
             looked == Append(acc.lookups, var_name)
         IN  IF Truthy(acc.environ[var_name])
             THEN EnsureLoop(k + 1, acc)
             ELSE IF answer.found /\ Truthy(answer.value)
             THEN EnsureLoop(k + 1,
                      [environ |-> [acc.environ EXCEPT ![var_name] = answer.value],
                       lookups |-> looked])
             ELSE EnsureLoop(k + 1,
                      [environ |-> acc.environ, lookups |-> looked])

\* ensure_credential_key_env()
EnsureCredentialKeyEnv(env) ==
    IF ~shellInstalled
    THEN [environ |-> env, lookups |-> <<>>]
    ELSE EnsureLoop(1, [environ |-> env, lookups |-> <<>>])

\* required_tools and node_types as validate_agent_credentials aggregates them
RequiredTools(nds) ==
    UNION {nds[k].tools : k \in {j \in 1..Len(nds) : nds[j].tools # {}}}

NodeTypesOf(nds) == {nds[k].node_type : k \in 1..Len(nds)}

\* adapter.get_missing_for_tools(tool_names): the registry's specs, in
\* registry order, that one of the tools requires and the store lacks
RECURSIVE MissingFrom(_, _, _)
MissingFrom(k, names, field) ==
    IF k > Len(Registry) THEN <<>>
    ELSE LET spec == Registry[k]
             wanted == IF field = "tools" THEN spec.tools ELSE spec.node_types
         IN  IF wanted \cap ToSet(names) # {} /\ spec.name \notin present
             THEN <<spec>> \o MissingFrom(k + 1, names, field)
             ELSE MissingFrom(k + 1, names, field)

GetMissingForTools(tool_names) == MissingFrom(1, tool_names, "tools")

GetMissingForNodeTypes(type_names) == MissingFrom(1, type_names, "node_types")

AffectedAllOfSpec(required, declared) == Sorted(declared)

\* sorted(t for t in required if t in declared)
Affected(required, declared) == Sorted({t \in required : t \in declared})

\* One entry of `missing`: "  {env_var} for {', '.join(affected)}[ nodes]"
\* followed by "\n    Get it at: {help_url}" when the spec has a help_url.
Entry(spec, affected, suffix) ==
    [env_var |-> spec.env_var, affected |-> affected, suffix |-> suffix,
     get_it_at |-> IF Truthy(spec.help_url) THEN spec.help_url ELSE None]

ToolEntries(required_tools) ==
    LET found == GetMissingForTools(Sorted(required_tools))
    IN  [k \in 1..Len(found) |->
            Entry(found[k], Affected(required_tools, found[k].tools), "")]

NodeTypeEntries(node_types) ==
    LET found == GetMissingForNodeTypes(Sorted(node_types))
    IN  [k \in 1..Len(found) |->
            Entry(found[k], Affected(node_types, found[k].node_types),
                  " nodes")]

\* validate_agent_credentials once the store adapter has been imported
ValidateWithAdapter(nds) ==
    LET required_tools == RequiredTools(nds)
        node_types == NodeTypesOf(nds)
        ensured == EnsureCredentialKeyEnv(environ)
        found == ToolEntries(required_tools) \o NodeTypeEntries(node_types)
    IN  /\ environ' = ensured.environ
        /\ lookups' = ensured.lookups
        /\ adapterCalls' =
              << <<"default">>,
                 <<"get_missing_for_tools", Sorted(required_tools)>>,
                 <<"get_missing_for_node_types", Sorted(node_types)>> >>
        /\ message' = found
        /\ outcome' = IF found # <<>> THEN "raised" ELSE "returned"

\* the ImportError branch: return before anything else is done
ValidateWithoutAdapter ==
    /\ environ' = environ
    /\ lookups' = <<>>
    /\ adapterCalls' = <<>>
    /\ message' = <<>>
    /\ outcome' = "returned"

ValidateEnsuringFirst(nds) ==
    IF adapterInstalled THEN ValidateWithAdapter(nds)
    ELSE LET ensured == EnsureCredentialKeyEnv(environ)
         IN  /\ environ' = ensured.environ
             /\ lookups' = ensured.lookups
             /\ adapterCalls' = <<>>
             /\ message' = <<>>
             /\ outcome' = "returned"

\* validate_agent_credentials(nodes)
ValidateAgentCredentials(nds) ==
    IF adapterInstalled THEN ValidateWithAdapter(nds)
    ELSE ValidateWithoutAdapter

\* the runner's call of validate_agent_credentials before it executes the
\* graph (one call per run)
Validate ==
    /\ lastCall = "none"
    /\ \E nds \in NodeLists :
          /\ nodes' = nds
          /\ ValidateAgentCredentials(nds)
    /\ lastCall' = "validate"
    /\ environBefore' = environ
    /\ UNCHANGED <<adapterInstalled, shellInstalled, shellConfig, present>>
    /\ UNCHANGED setupVars

\* a call of ensure_credential_key_env by the runner
Ensure ==
    /\ LET ensured == EnsureCredentialKeyEnv(environ)
       IN  /\ environ' = ensured.environ
           /\ lookups' = ensured.lookups
    /\ outcome' = "returned"
    /\ lastCall' = "ensure"
    /\ environBefore' = environ
    /\ UNCHANGED <<nodes, adapterInstalled, shellConfig, shellInstalled,
                   present, adapterCalls, message>>
    /\ UNCHANGED setupVars

ShellAnswers ==
    { [found |-> FALSE, value |-> None],
      [found |-> TRUE, value |-> ""],
      [found |-> TRUE, value |-> "from-shell"],
      [found |-> FALSE, value |-> "from-shell"] }

EnvironValues == {Unset, "", "from-env"}

ValidationStart ==
    /\ nodes = <<>>
    /\ lookups = <<>>
    /\ adapterCalls = <<>>
    /\ outcome = "idle"
    /\ message = <<>>
    /\ lastCall = "none"
    /\ environBefore = environ

SetupIdle ==
    /\ missing = <<>>
    /\ inputs = <<>>
    /\ dismissed = FALSE
    /\ result = "pending"
    /\ crashed = FALSE
    /\ store = [v \in EnvVars |-> Absent]
    /\ lastOp = "none"
    /\ lastLog = <<>>
    /\ configured = 0

\* the process before the first call of ensure_credential_key_env
EnsureInit ==
    /\ shellInstalled \in BOOLEAN
    /\ shellConfig \in [KeyVarSet -> ShellAnswers]
    /\ environ \in [KeyVarSet -> EnvironValues]
    /\ adapterInstalled = FALSE
    /\ present = {}
    /\ ValidationStart
    /\ SetupIdle

\* the process before the first call of validate_agent_credentials
ValidationInit ==
    /\ shellInstalled \in BOOLEAN
    /\ adapterInstalled \in BOOLEAN
    /\ shellConfig \in {[v \in KeyVarSet |-> a] :
                           a \in {[found |-> FALSE, value |-> None],
                                  [found |-> TRUE, value |-> "from-shell"]}}
    /\ environ \in {[v \in KeyVarSet |-> e] : e \in {Unset, "from-env"}}
    /\ present \in SUBSET SpecNames
    /\ ValidationStart
    /\ SetupIdle

EnsureNext == Ensure

EnsureSpec == EnsureInit /\ [][EnsureNext]_vars

ValidationNext == Validate

ValidationSpec == ValidationInit /\ [][ValidationNext]_vars

\* ------------------------------------------------- vocabulary of the claims
Blank(s) == \A k \in 1..Len(s) : s[k] \in Whitespace

AllBlank == \A i \in 1..Len(missing) : Blank(inputs[i])

\* v is s without its leading and trailing whitespace
IsTrimOf(v, s) ==
    \E a \in 0..Len(s) :
        /\ a + Len(v) <= Len(s)
        /\ v = SubSeq(s, a + 1, a + Len(v))
        /\ \A k \in 1..a : s[k] \in Whitespace
        /\ \A k \in (a + Len(v) + 1)..Len(s) : s[k] \in Whitespace
        /\ v # <<>> => (v[1] \notin Whitespace /\ v[Len(v)] \notin Whitespace)

Positions(type) == {k \in 1..Len(lastLog) : lastLog[k].type = type}

PositionsFor(type, i) == {k \in Positions(type) : lastLog[k].idx = i}

Attempts(i) == PositionsFor("stored", i) \cup PositionsFor("store_failed", i)

StoreEmpty == \A v \in EnvVars : store[v] = Absent

\* the save handler ran last and the Master Key Provider returned
SaveRan == lastOp = "save" /\ ~crashed

\* the store holds, for each env_var, the value of the last successful write
StoreHoldsWrites ==
    \A v \in EnvVars :
        LET ks == {k \in Positions("stored") : lastLog[k].env_var = v}
        IN  IF ks = {} THEN store[v] = Absent
            ELSE \E k \in ks : /\ \A j \in ks : j <= k
                               /\ store[v] = lastLog[k].value

\* C1 (as stated): when save is triggered and every input is blank, the
\* session is dismissed with the cancel result and nothing has been written.
C1_AllBlankSaveCancels ==
    (SaveRan /\ AllBlank /\ Len(missing) >= 1) =>
        (Status = "Cancelled" /\ result = "None" /\ StoreEmpty)

\* C1 (amended): when save is triggered, the Master Key Provider returns and
\* every input is blank, nothing is written or attempted, a warning is
\* notified and the screen is not dismissed: the session stays Collecting.
C1_AllBlankSaveStaysCollecting ==
    (SaveRan /\ AllBlank) =>
        /\ Status = "Collecting"
        /\ result = "pending"
        /\ \A i \in 1..Len(missing) : Attempts(i) = {}
        /\ StoreEmpty
        /\ configured = 0
        /\ Positions("notify_warning") = {Len(lastLog)}

C1_Witness ==
    /\ SaveRan /\ AllBlank
    /\ Len(missing) >= 2
    /\ \E i \in 1..Len(missing) : inputs[i] # <<>>

\* one write per non-blank entry, keyed by its env_var, carrying the trimmed
\* value, in entry order; no write for a blank entry; nothing failed
OneTrimmedWritePerNonBlank ==
    /\ \A i \in 1..Len(missing) :
          IF Blank(inputs[i]) THEN PositionsFor("stored", i) = {}
          ELSE /\ Cardinality(PositionsFor("stored", i)) = 1
               /\ \A k \in PositionsFor("stored", i) :
                     /\ lastLog[k].env_var = missing[i]
                     /\ IsTrimOf(lastLog[k].value, inputs[i])
    /\ \A j, k \in Positions("stored") :
          j < k => lastLog[j].idx < lastLog[k].idx
    /\ configured = Cardinality({i \in 1..Len(missing) : ~Blank(inputs[i])})
    /\ Positions("notify_error") = {}
    /\ StoreHoldsWrites

\* C2 (as stated): when save is triggered and no store write fails, the
\* session ends Saved (dismissed with True) with exactly one write per
\* non-blank entry, keyed by its env_var and carrying the trimmed value.
C2_NoFailureSaveEndsSaved ==
    (SaveRan /\ Positions("store_failed") = {}) =>
        /\ Status = "Saved"
        /\ result = "True"
        /\ OneTrimmedWritePerNonBlank

\* C2 (amended): when save is triggered, the Master Key Provider returns, at
\* least one input is non-blank and no store write fails, the session ends
\* Saved (dismissed with True) with exactly one write per non-blank entry,
\* keyed by its env_var and carrying the trimmed value, in entry order, no
\* write for a blank entry, configured = number of non-blank entries and no
\* error notification.
C2_NoFailureSaveWritesTrimmed ==
    (SaveRan /\ ~AllBlank /\ Positions("store_failed") = {}) =>
        /\ Status = "Saved"
        /\ result = "True"
        /\ OneTrimmedWritePerNonBlank

C2_Witness ==
    /\ SaveRan /\ Positions("store_failed") = {}
    /\ \E i, j \in 1..Len(missing) :
          /\ Blank(inputs[i]) /\ inputs[i] # <<>>
          /\ ~Blank(inputs[j])
          /\ inputs[j][Len(inputs[j])] \in Whitespace
    /\ configured = 1

\* C3 (as stated): Collecting -> Saved is taken whenever at least one
\* non-blank value was processed, also when all of the store writes failed.
C3_SavedWheneverNonBlank ==
    (SaveRan /\ ~AllBlank) => Status = "Saved"

\* C3 (amended): Collecting -> Saved is taken exactly when at least one store
\* write succeeded during save, also when other writes failed; when every
\* attempted write failed the session stays Collecting.  configured is the
\* number of successful writes and every failed write has its own error
\* notification.
C3_SavedIffSomeWriteSucceeded ==
    SaveRan =>
        /\ Status = "Saved" <=> Positions("stored") # {}
        /\ Status = "Collecting" <=> Positions("stored") = {}
        /\ configured = Cardinality(Positions("stored"))
        /\ \A k \in 1..Len(lastLog) :
              lastLog[k].type = "store_failed" <=>
                  (k < Len(lastLog) /\ lastLog[k + 1].type = "notify_error"
                                    /\ lastLog[k + 1].env_var = lastLog[k].env_var)

C3_Witness ==
    /\ SaveRan
    /\ Status = "Saved"
    /\ Positions("store_failed") # {}

\* C4: a store-write failure during save is not fatal: every non-blank entry
\* after the failing one is still attempted (once, later in the run), and
\* the writes that succeeded are in the store.
C4_FailureIsNotFatal ==
    SaveRan =>
        /\ \A f \in Positions("store_failed") :
              \A j \in (lastLog[f].idx + 1)..Len(missing) :
                  ~Blank(inputs[j]) =>
                      /\ Cardinality(Attempts(j)) = 1
                      /\ \A k \in Attempts(j) : k > f
        /\ StoreHoldsWrites

C4_Witness ==
    /\ SaveRan
    /\ \E f \in Positions("store_failed"), k \in Positions("stored") :
          f < k /\ store[lastLog[k].env_var] = lastLog[k].value

\* C5: an explicit cancel (Escape or Skip) from Collecting dismisses the
\* screen with None, leaves the store unchanged whatever is typed, writes
\* nothing and does not invoke the Master Key Provider.
C5_CancelTouchesNothing ==
    [][(Mounted /\ lastOp' \in {"skip", "escape"}) =>
          /\ dismissed' /\ result' = "None" /\ ~crashed'
          /\ store' = store
          /\ lastLog' = <<>>
          /\ inputs' = inputs]_vars

C5_Witness ==
    /\ lastOp \in {"skip", "escape"}
    /\ Status = "Cancelled"
    /\ \E i \in 1..Len(missing) : ~Blank(inputs[i])

\* C10: every store write is preceded by a successful Master Key Provider
\* call of the same session; when the Master Key Provider fails the session
\* fails, nothing has been written and the screen is never dismissed as
\* Saved.
C10_KeyBeforeWrites ==
    /\ \A k \in Positions("stored") \cup Positions("store_failed") :
          \E j \in Positions("key_ok") : j < k
    /\ ~StoreEmpty => Positions("key_ok") # {}
    /\ Positions("key_failed") # {} =>
          /\ crashed
          /\ Positions("stored") = {}
    /\ crashed => (StoreEmpty /\ ~dismissed /\ result # "True"
                   /\ ~ENABLED SetupNext)

C10_Witness ==
    /\ crashed
    /\ Positions("key_failed") # {}
    /\ \E i \in 1..Len(missing) : ~Blank(inputs[i])

\* ---------------------------------------------- claims about validation.py
SpecsOfRegistry == ToSet(Registry)

WorkloadTools == UNION {nodes[k].tools : k \in 1..Len(nodes)}

WorkloadTypes == {nodes[k].node_type : k \in 1..Len(nodes)}

\* the registry specs the store lacks that the workload requires by a tool
MissingByTool ==
    {s \in SpecsOfRegistry : s.name \notin present /\ s.tools \cap WorkloadTools # {}}

\* the registry specs the store lacks that the workload requires by a type
MissingByType ==
    {s \in SpecsOfRegistry :
        s.name \notin present /\ s.node_types \cap WorkloadTypes # {}}

Ascending(seq) == \A j, k \in 1..Len(seq) : j < k => seq[j] < seq[k]

EntriesOf(env_var, suffix) ==
    {k \in 1..Len(message) :
        message[k].env_var = env_var /\ message[k].suffix = suffix}

Validated == lastCall = "validate" /\ adapterInstalled

\* C6 (as stated): no spec appears twice in the missing-credential listing;
\* a spec required both by a tool and by a node type gives one entry.
C6_NoSpecListedTwice ==
    Validated =>
        \A j, k \in 1..Len(message) :
            message[j].env_var = message[k].env_var => j = k

\* C7: without the store adapter installed, validate_agent_credentials
\* returns normally for every node list and touches neither the process
\* environment, nor the shell config, nor the store.
C7_NoAdapterIsNoOp ==
    (lastCall = "validate" /\ ~adapterInstalled) =>
        /\ outcome = "returned"
        /\ message = <<>>
        /\ environ = environBefore
        /\ lookups = <<>>
        /\ adapterCalls = <<>>

C7_Witness ==
    /\ lastCall = "validate" /\ ~adapterInstalled
    /\ MissingByTool # {} /\ MissingByType # {}
    /\ shellInstalled
    /\ \E v \in KeyVarSet :
          /\ ~Truthy(environ[v])
          /\ shellConfig[v].found /\ Truthy(shellConfig[v].value)

C9_EnsureReadsIfPresentWritesIfFound ==
    lastCall = "ensure" =>
        /\ outcome = "returned"
        /\ \A v \in KeyVarSet :
              IF Truthy(environBefore[v])
              THEN environ[v] = environBefore[v] /\ v \notin ToSet(lookups)
              ELSE IF /\ shellInstalled
                      /\ shellConfig[v].found
                      /\ shellConfig[v].value \notin {None, ""}
                   THEN environ[v] = shellConfig[v].value
                   ELSE environ[v] = environBefore[v]
        /\ ~shellInstalled => (environ = environBefore /\ lookups = <<>>)

C9_Witness ==
    /\ lastCall = "ensure"
    /\ shellInstalled
    /\ \E v, w \in KeyVarSet :
          /\ environBefore[v] = "from-env"
          /\ shellConfig[v] = [found |-> TRUE, value |-> "from-shell"]
          /\ environBefore[w] = Unset
          /\ environ[w] = "from-shell"
====
